---- MODULE Spec2Model ----
(***************************************************************************)
(* dataserv-client: the Client of api.py (register, ping, poll, build,     *)
(* farm) together with the collaborators it drives: the messenger          *)
(* (messaging.Messaging) and the shard builder (builder.Builder).          *)
(*                                                                         *)
(* Units.  Sizes are counted in half shards, so that max_size values that   *)
(* are not a multiple of SHARD_SIZE exist.  Time is counted in whole       *)
(* seconds; delay and limit are whole seconds, on which int() is the       *)
(* identity.  The clock is read by poll only (api.py:167, 175), and only   *)
(* differences of its readings matter: it is counted from the start of     *)
(* the running API call and advances while poll is blocked.                *)
(***************************************************************************)
EXTENDS Integers, Sequences, FiniteSets, TLC

\* ------------------------------------------------------------------ bounds
MaxSize == 6          \* largest max_size, in half shards
MaxInterval == 3      \* largest set_height_interval
MaxCores == 2         \* largest num_cores
MaxRetryLimit == 2    \* largest connection_retry_limit
MaxRetryDelay == 1    \* largest connection_retry_delay
MaxAttempts == 3      \* cap on the attempts of one remote operation
MaxDelay == 2         \* largest poll delay
MaxLimit == 2         \* largest poll limit
MaxTime == 4          \* the clock stops advancing here
MaxPings == 3         \* cap on the pings of one poll
MaxCalls == 2         \* cap on the API calls made on one client

\* ------------------------------------------------------- program constants
SHARD_SIZE == 2                    \* common.SHARD_SIZE, in half shards
DEFAULT_SET_HEIGHT_INTERVAL == 2   \* common.DEFAULT_SET_HEIGHT_INTERVAL
DEFAULT_NUMCORES == 2              \* common.DEFAULT_NUMCORES
DEFAULT_DELAY == 1                 \* common.DEFAULT_DELAY
\* api.py:224 sets 99999999999999999999999999999999999999; the largest
\* integer of the model checker stands for it.  No attempt count of the
\* model comes near either value.
FarmRetryLimit == 2147483647

NoLimit == -1                      \* limit=None of poll
NoStop == -1                       \* stop_time = None of poll

VARIABLES
    max_size,     \* Client.max_size
    retry_limit,  \* Client.retry_limit
    retry_delay,  \* Client.retry_delay
    cfg,          \* Client.cfg
    saved,        \* the configuration saved at cfg_path
    messenger,    \* Client.messenger (lazy)
    cmd,          \* the API method called last (running unless pc = "idle")
    pc,           \* position of the calling thread
    phase,        \* phase of farm()
    result,       \* outcome of the last API call
    inflight,     \* remote operations in flight on the messenger
    now,          \* the clock
    store,        \* heights whose shard is on disk under store_path
    bargs,        \* arguments of the running build
    todo,         \* heights not yet dispatched to a worker
    running,      \* heights a worker is generating
    done,         \* heights that completed generation
    settled,      \* settled height of the ordering collector
    pending,      \* heights the callback still has to pass to the messenger
    exc,          \* error that aborts the build ("" when none)
    pargs,        \* arguments and stop_time of the running poll
    hist,         \* what the current API call has done so far
    calls         \* API calls made on the client

vars == <<max_size, retry_limit, retry_delay, cfg, saved, messenger, cmd, pc, phase,
          result, inflight, now, store, bargs, todo, running, done,
          settled, pending, exc, pargs, hist, calls>>

clientVars == <<max_size, retry_limit, retry_delay, cfg, saved>>
buildVars == <<store, bargs, todo, running, done, settled, pending, exc>>

\* ----------------------------------------------------------------- helpers
Min(S) == CHOOSE x \in S : \A y \in S : x <= y

FloorDiv(a, b) == a \div b

CeilDiv(a, b) == (a + b - 1) \div b

\* spec 3: total_height = ceil(max_size / shard_size); the heights the
\* builder iterates.
TotalHeight(size) == CeilDiv(size, SHARD_SIZE)

Heights(size) == 1..TotalHeight(size)

\* BtcTxStore.validate_wallet and validate_address: the well-formed
\* wallets and addresses.
Wallets == {"w1", "w2"}

Addresses == {"a1", "a2"}

\* Arguments of config: "None" for an argument left out, a well-formed
\* value different from the configured one, and a malformed one.
WalletArgs == {"None", "w2", "bad-hwif"}

AddressArgs == {"None", "a2", "bad-address"}

\* BtcTxStore.get_key: the signing key of a wallet.
GetKey(wallet) == <<"key", wallet>>

None == [exists |-> FALSE, retry_limit |-> 0, retry_delay |-> 0,
         wif |-> <<"key", "">>]

NoResult == [kind |-> "none", val |-> "", n |-> 0]

Returned(v, k) == [kind |-> "return", val |-> v, n |-> k]

Raised(e) == [kind |-> "raise", val |-> e, n |-> 0]

NoBuild == [interval |-> 1, cores |-> 1, cleanup |-> FALSE, rebuild |-> FALSE]

NoPoll == [delay |-> 0, limit |-> NoLimit, stop_time |-> NoStop, T |-> 0]

\* What one API call has done: shards generated, heights passed to
\* messenger.height, pings issued and completed, sleeps, calls of the
\* builder, what register() ended with ("" while it has not), whether
\* build() returned, the height whose report the server rejected (0 when
\* none), the clock when the first ping completed (-1 before), and the
\* attempts and waits of the remote operation that ended in
\* ConnectionExhausted (0 when none did), the arguments of config and the
\* number of times it saved the configuration.
NoHist == [generated |-> {}, reported |-> <<>>, pingCalls |-> 0, pings |-> 0,
           sleeps |-> 0, builds |-> 0, regOutcome |-> "",
           buildReturned |-> FALSE, rejected |-> 0, firstPing |-> -1,
           attempts |-> 0, waits |-> 0, set_wallet |-> "None",
           set_payout_address |-> "None", saves |-> 0]

Init ==
    /\ max_size \in 1..MaxSize
    /\ retry_limit \in 1..MaxRetryLimit
    /\ retry_delay \in 0..MaxRetryDelay
    /\ cfg = [wallet |-> "w1", payout_address |-> "a1"]
    /\ saved = cfg
    /\ messenger = None
    /\ cmd = "none"
    /\ pc = "idle"
    /\ phase = "Idle"
    /\ result = NoResult
    /\ inflight = {}
    /\ now = 0
    /\ store = {}
    /\ bargs = NoBuild
    /\ todo = {}
    /\ running = {}
    /\ done = {}
    /\ settled = 0
    /\ pending = <<>>
    /\ exc = ""
    /\ pargs = NoPoll
    /\ hist = NoHist
    /\ calls = 0

\* ------------------------------------------------------------- the client
\* _init_messenger passing retry_delay and retry_limit in the wrong order.
InitMessenger_Swapped(m, limit, delay, wallet) ==
    IF ~m.exists
    THEN [exists |-> TRUE, retry_limit |-> delay, retry_delay |-> limit,
          wif |-> GetKey(wallet)]
    ELSE m

\* _init_messenger without the "is None" test: a new messenger each time.
InitMessenger_Always(m, limit, delay, wallet) ==
    [exists |-> TRUE, retry_limit |-> limit, retry_delay |-> delay,
     wif |-> GetKey(wallet)]

\* Client._init_messenger: create the messenger unless it exists.
InitMessenger(m, limit, delay, wallet) ==
    IF ~m.exists
    THEN [exists |-> TRUE, retry_limit |-> limit, retry_delay |-> delay,
          wif |-> GetKey(wallet)]
    ELSE m

\* No build is running: the locals of Builder.build are gone.
NoBuilder ==
    /\ bargs' = NoBuild
    /\ todo' = {}
    /\ running' = {}
    /\ done' = {}
    /\ settled' = 0
    /\ pending' = <<>>
    /\ exc' = ""
    /\ UNCHANGED store

\* An API method is called on the idle client.
Call(name) ==
    /\ pc = "idle"
    /\ calls < MaxCalls
    /\ calls' = calls + 1
    /\ cmd' = name
    /\ result' = NoResult
    /\ now' = 0

\* ------------------------------------------------------------------ config
\* config(set_wallet, set_payout_address) with a wallet checked only after
\* the payout address has been stored and saved.
Config_ValidateWalletLate ==
    /\ pc = "idle"
    /\ calls < MaxCalls
    /\ calls' = calls + 1
    /\ cmd' = "config"
    /\ now' = 0
    /\ \E sw \in WalletArgs, sp \in AddressArgs :
        LET args == [NoHist EXCEPT !.set_wallet = sw,
                                   !.set_payout_address = sp]
            paid == IF sp # "None"
                    THEN [cfg EXCEPT !.payout_address = sp]
                    ELSE cfg
        IN  IF sp # "None" /\ sp \notin Addresses
            THEN /\ result' = Raised("InvalidAddress")
                 /\ hist' = args
                 /\ UNCHANGED <<cfg, saved, messenger>>
            ELSE IF sw # "None" /\ sw \notin Wallets
            THEN /\ result' = Raised("InvalidHWIF")
                 /\ hist' = [args EXCEPT !.saves = IF sp # "None" THEN 1
                                                   ELSE 0]
                 /\ cfg' = paid
                 /\ saved' = IF sp # "None" THEN paid ELSE saved
                 /\ messenger' = InitMessenger(messenger, retry_limit,
                                               retry_delay, cfg.wallet)
            ELSE /\ messenger' = InitMessenger(messenger, retry_limit,
                                               retry_delay, cfg.wallet)
                 /\ cfg' = [wallet |-> IF sw # "None" THEN sw
                                       ELSE cfg.wallet,
                            payout_address |-> paid.payout_address]
                 /\ saved' = IF sw # "None" \/ sp # "None" THEN cfg'
                             ELSE saved
                 /\ hist' = [args EXCEPT
                               !.saves = IF sw # "None" \/ sp # "None"
                                         THEN 1 ELSE 0]
                 /\ result' = Returned("cfg", 0)
    /\ pc' = "idle"
    /\ phase' = "Idle"
    /\ NoBuilder
    /\ pargs' = NoPoll
    /\ UNCHANGED <<max_size, retry_limit, retry_delay, inflight>>

\* config(set_wallet, set_payout_address) called on an idle client:
\* both arguments are validated, then the messenger is made sure of,
\* then the configuration is updated, saved if updated, and shown.
Config ==
    /\ pc = "idle"
    /\ calls < MaxCalls
    /\ calls' = calls + 1
    /\ cmd' = "config"
    /\ now' = 0
    /\ \E sw \in WalletArgs, sp \in AddressArgs :
        LET args == [NoHist EXCEPT !.set_wallet = sw,
                                   !.set_payout_address = sp]
            config_updated == sw # "None" \/ sp # "None"
        IN  IF sp # "None" /\ sp \notin Addresses
            THEN /\ result' = Raised("InvalidAddress")
                 /\ hist' = args
                 /\ UNCHANGED <<cfg, saved, messenger>>
            ELSE IF sw # "None" /\ sw \notin Wallets
            THEN /\ result' = Raised("InvalidHWIF")
                 /\ hist' = args
                 /\ UNCHANGED <<cfg, saved, messenger>>
            ELSE /\ messenger' = InitMessenger(messenger, retry_limit,
                                               retry_delay, cfg.wallet)
                 /\ cfg' = [wallet |-> IF sw # "None" THEN sw
                                       ELSE cfg.wallet,
                            payout_address |-> IF sp # "None" THEN sp
                                               ELSE cfg.payout_address]
                 /\ saved' = IF config_updated THEN cfg' ELSE saved
                 /\ hist' = [args EXCEPT
                               !.saves = IF config_updated THEN 1 ELSE 0]
                 /\ result' = Returned("cfg", 0)
    /\ pc' = "idle"
    /\ phase' = "Idle"
    /\ NoBuilder
    /\ pargs' = NoPoll
    /\ UNCHANGED <<max_size, retry_limit, retry_delay, inflight>>

\* ---------------------------------------------------------- the messenger
\* spec 4.3 and 6: what the server can answer to one attempt.
Outcomes(op) ==
    CASE op = "register" ->
           {"ok", "AddressAlreadyRegistered", "InvalidAddress", "transient"}
      [] op = "ping" -> {"ok", "transient"}
      [] op = "height" -> {"ok", "HeightRejected", "transient"}

\* spec 4.3: only a transport failure is retried.
Retryable(outcome) == outcome = "transient"

\* spec 4.3: retry up to limit attempts.
MayRetry(attempts, limit) == attempts < limit

\* What the blocked caller gets once the operation is over.
Surfaced(outcome) ==
    IF Retryable(outcome) THEN "ConnectionExhausted" ELSE outcome

\* The caller starts a remote operation and blocks on it.
Issue(op, arg) ==
    inflight \cup {[op |-> op, arg |-> arg, attempts |-> 1, waits |-> 0]}

\* One attempt of r got answer o, which ends the operation.
Ends(r, o) ==
    /\ o \in Outcomes(r.op)
    /\ Retryable(o) => ~MayRetry(r.attempts, messenger.retry_limit)

\* The operation r is over with answer o: what a retry-exhausted one did.
Exhaust(h, r, o) ==
    IF Retryable(o)
    THEN [h EXCEPT !.attempts = r.attempts, !.waits = r.waits]
    ELSE h

\* The clock is followed while poll is running.
Timed == cmd = "poll" \/ phase = "Polling"

Elapse(d) == IF Timed THEN now + d ELSE now

\* A transient failure: wait retry_delay and try again.
Retry ==
    /\ \E r \in inflight :
        /\ MayRetry(r.attempts, messenger.retry_limit)
        /\ r.attempts < MaxAttempts
        /\ Elapse(messenger.retry_delay) <= MaxTime
        /\ inflight' = (inflight \ {r})
                         \cup {[r EXCEPT !.attempts = r.attempts + 1,
                                          !.waits = r.waits + 1]}
        /\ now' = Elapse(messenger.retry_delay)
    /\ UNCHANGED <<clientVars, calls, messenger, cmd, pc, phase, result, buildVars,
                   pargs, hist>>

\* Time passes while the caller is blocked on the network.
Tick ==
    /\ inflight # {}
    /\ Timed
    /\ now < MaxTime
    /\ now' = now + 1
    /\ UNCHANGED <<clientVars, calls, messenger, cmd, pc, phase, result, inflight,
                   buildVars, pargs, hist>>

\* An error leaves the running API call.
Propagate(e) ==
    /\ result' = Raised(e)
    /\ pc' = "idle"
    /\ phase' = IF cmd = "farm" THEN "Terminal" ELSE phase

\* ---------------------------------------------------------------- register
\* Client.register up to the blocking call of messenger.register.
RegisterBody(m) ==
    /\ messenger' = InitMessenger(m, retry_limit, retry_delay, cfg.wallet)
    /\ inflight' = Issue("register", cfg.payout_address)
    /\ pc' = "reg_call"

\* register() called on an idle client.
Register ==
    /\ Call("register")
    /\ RegisterBody(messenger)
    /\ hist' = NoHist
    /\ phase' = "Idle"
    /\ NoBuilder
    /\ pargs' = NoPoll
    /\ UNCHANGED clientVars

\* farm() with a bare "except:" around register().
FarmCatches_All(e) == TRUE

\* Where farm() goes on after register(): AddressAlreadyRegistered is
\* caught (api.py:228), anything else leaves farm().
FarmCatches(e) == e = "AddressAlreadyRegistered"

\* register() with a handler that takes AddressAlreadyRegistered for
\* success and returns True.
RegisterReturn_Absorb ==
    /\ pc = "reg_call"
    /\ \E r \in inflight, o \in Outcomes("register") :
        /\ r.op = "register"
        /\ Ends(r, o)
        /\ inflight' = inflight \ {r}
        /\ hist' = [Exhaust(hist, r, o) EXCEPT !.regOutcome = Surfaced(o)]
        /\ IF o \in {"ok", "AddressAlreadyRegistered"}
           THEN CASE cmd = "register" ->
                       /\ result' = Returned("True", 0)
                       /\ pc' = "idle"
                       /\ phase' = phase
                  [] cmd = "poll" ->
                       /\ pc' = "poll_ping"
                       /\ UNCHANGED <<result, phase>>
                  [] cmd = "farm" ->
                       /\ pc' = "farm_build"
                       /\ phase' = "Building"
                       /\ UNCHANGED result
           ELSE Propagate(Surfaced(o))
    /\ UNCHANGED <<clientVars, calls, messenger, cmd, now, buildVars, pargs>>

\* messenger.register is over: register() returns True or raises, and its
\* caller (command line, poll or farm) goes on.
RegisterReturn ==
    /\ pc = "reg_call"
    /\ \E r \in inflight, o \in Outcomes("register") :
        /\ r.op = "register"
        /\ Ends(r, o)
        /\ inflight' = inflight \ {r}
        /\ hist' = [Exhaust(hist, r, o) EXCEPT !.regOutcome = Surfaced(o)]
        /\ IF o = "ok"
           THEN CASE cmd = "register" ->
                       /\ result' = Returned("True", 0)
                       /\ pc' = "idle"
                       /\ phase' = phase
                  [] cmd = "poll" ->
                       /\ pc' = "poll_ping"
                       /\ UNCHANGED <<result, phase>>
                  [] cmd = "farm" ->
                       /\ pc' = "farm_build"
                       /\ phase' = "Building"
                       /\ UNCHANGED result
           ELSE IF cmd = "farm" /\ FarmCatches(Surfaced(o))
           THEN /\ pc' = "farm_build"
                /\ phase' = "Building"
                /\ UNCHANGED result
           ELSE Propagate(Surfaced(o))
    /\ UNCHANGED <<clientVars, calls, messenger, cmd, now, buildVars, pargs>>

\* -------------------------------------------------------------------- ping
\* Client.ping up to the blocking call of messenger.ping.
PingBody ==
    /\ messenger' = InitMessenger(messenger, retry_limit, retry_delay,
                                  cfg.wallet)
    /\ inflight' = Issue("ping", 0)
    /\ pc' = "ping_call"

\* ping() called on an idle client.
Ping ==
    /\ Call("ping")
    /\ PingBody
    /\ hist' = [NoHist EXCEPT !.pingCalls = 1]
    /\ phase' = "Idle"
    /\ NoBuilder
    /\ pargs' = NoPoll
    /\ UNCHANGED clientVars

\* poll with a handler around self.ping() that goes on with the loop.
PingReturn_Swallow ==
    /\ pc = "ping_call"
    /\ \E r \in inflight, o \in Outcomes("ping") :
        /\ r.op = "ping"
        /\ Ends(r, o)
        /\ inflight' = inflight \ {r}
        /\ IF o = "ok"
           THEN /\ hist' = [hist EXCEPT !.pings = hist.pings + 1,
                                        !.firstPing = IF hist.pings = 0
                                                      THEN now
                                                      ELSE hist.firstPing]
                /\ IF cmd = "ping"
                   THEN /\ result' = Returned("True", 0)
                        /\ pc' = "idle"
                   ELSE /\ pc' = "poll_check"
                        /\ UNCHANGED result
                /\ UNCHANGED phase
           ELSE /\ hist' = Exhaust(hist, r, o)
                /\ IF cmd = "ping"
                   THEN Propagate(Surfaced(o))
                   ELSE /\ pc' = "poll_check"
                        /\ UNCHANGED <<result, phase>>
    /\ UNCHANGED <<clientVars, calls, messenger, cmd, now, buildVars, pargs>>

\* messenger.ping is over: ping() returns True or raises; inside poll the
\* loop goes on to the deadline check.
PingReturn ==
    /\ pc = "ping_call"
    /\ \E r \in inflight, o \in Outcomes("ping") :
        /\ r.op = "ping"
        /\ Ends(r, o)
        /\ inflight' = inflight \ {r}
        /\ IF o = "ok"
           THEN /\ hist' = [hist EXCEPT !.pings = hist.pings + 1,
                                        !.firstPing = IF hist.pings = 0
                                                      THEN now
                                                      ELSE hist.firstPing]
                /\ IF cmd = "ping"
                   THEN /\ result' = Returned("True", 0)
                        /\ pc' = "idle"
                   ELSE /\ pc' = "poll_check"
                        /\ UNCHANGED result
                /\ UNCHANGED phase
           ELSE /\ Propagate(Surfaced(o))
                /\ hist' = Exhaust(hist, r, o)
    /\ UNCHANGED <<clientVars, calls, messenger, cmd, now, buildVars, pargs>>
\* ------------------------------------------------------------------- build
\* _on_generate_shard with one "if" per condition instead of their
\* disjunction: a height is passed once for every condition it meets.
OnGenerateShard_PerCondition(cur_height, size, set_height_interval) ==
    LET first == cur_height = 1
        set_height == (cur_height % set_height_interval) = 0
        last == FloorDiv(size, SHARD_SIZE) = cur_height
    IN  (IF first THEN <<cur_height>> ELSE <<>>)
          \o (IF set_height THEN <<cur_height>> ELSE <<>>)
          \o (IF last THEN <<cur_height>> ELSE <<>>)

\* _on_generate_shard taking cur_height for a 0-based index: it passes
\* cur_height + 1.
OnGenerateShard_NextHeight(cur_height, size, set_height_interval) ==
    LET first == cur_height = 1
        set_height == (cur_height % set_height_interval) = 0
        last == FloorDiv(size, SHARD_SIZE) = cur_height
    IN  IF first \/ set_height \/ last THEN <<cur_height + 1>> ELSE <<>>

\* _on_generate_shard: the heights the callback passes to messenger.height
\* when the builder hands it cur_height.
OnGenerateShard(cur_height, size, set_height_interval) ==
    LET first == cur_height = 1
        set_height == (cur_height % set_height_interval) = 0
        last == FloorDiv(size, SHARD_SIZE) = cur_height
    IN  IF first \/ set_height \/ last THEN <<cur_height>> ELSE <<>>

\* The callback hands the report to a background thread and returns.
HeightCallPc_Async == "build_run"

\* messenger.height is a blocking call: the collector waits for it.
HeightCallPc == "cb_wait"

Building == pc \in {"build_run", "cb_wait"}

\* spec 4.2: the work list; an existing shard is trusted unless rebuild.
WorkList(size, onDisk, rebuild) ==
    IF rebuild THEN Heights(size) ELSE Heights(size) \ onDisk

\* spec 4.2: the collector hands out height s + 1 once it is complete.
CollectorReady(s, complete) == (s + 1) \in complete

\* Client.build up to the blocking call of Builder.build, and the start of
\* Builder.build: cleanup, then the work list.
BuildBody(args) ==
    LET kept == IF args.cleanup THEN {} ELSE store
        work == WorkList(max_size, kept, args.rebuild)
    IN  /\ messenger' = InitMessenger(messenger, retry_limit, retry_delay,
                                      cfg.wallet)
        /\ bargs' = args
        /\ store' = kept
        /\ todo' = work
        /\ running' = {}
        /\ done' = Heights(max_size) \ work
        /\ settled' = 0
        /\ pending' = <<>>
        /\ exc' = ""
        /\ pc' = "build_run"

\* build(cleanup, rebuild, set_height_interval, num_cores) called on an idle
\* client.
Build ==
    /\ Call("build")
    /\ \E i \in 1..MaxInterval, c \in 1..MaxCores, cl \in BOOLEAN,
          rb \in BOOLEAN :
        BuildBody([interval |-> i, cores |-> c, cleanup |-> cl,
                   rebuild |-> rb])
    /\ hist' = [NoHist EXCEPT !.builds = 1]
    /\ phase' = "Idle"
    /\ pargs' = NoPoll
    /\ UNCHANGED <<clientVars, inflight>>

\* farm() calls build() with the defaults (api.py:230).
FarmBuild ==
    /\ pc = "farm_build"
    /\ BuildBody([interval |-> DEFAULT_SET_HEIGHT_INTERVAL,
                  cores |-> DEFAULT_NUMCORES, cleanup |-> FALSE,
                  rebuild |-> FALSE])
    /\ hist' = [hist EXCEPT !.builds = hist.builds + 1]
    /\ UNCHANGED <<clientVars, calls, cmd, phase, result, inflight, now, pargs>>

\* The pool hands the next height to a free worker.
Dispatch ==
    /\ Building
    /\ exc = ""
    /\ todo # {}
    /\ Cardinality(running) < bargs.cores
    /\ running' = running \cup {Min(todo)}
    /\ todo' = todo \ {Min(todo)}
    /\ UNCHANGED <<clientVars, calls, messenger, cmd, pc, phase, result, inflight,
                   now, store, bargs, done, settled, pending, exc, pargs,
                   hist>>

\* A worker wrote its shard and signals the collector.
WorkerDone ==
    /\ Building
    /\ \E h \in running :
        /\ running' = running \ {h}
        /\ done' = done \cup {h}
        /\ store' = store \cup {h}
        /\ hist' = [hist EXCEPT !.generated = hist.generated \cup {h}]
    /\ UNCHANGED <<clientVars, calls, messenger, cmd, pc, phase, result, inflight,
                   now, bargs, todo, settled, pending, exc, pargs>>

\* A worker cannot write its shard: no more dispatch, BuildFailure once
\* the other workers are through.
WorkerFail ==
    /\ Building
    /\ \E h \in running :
        /\ running' = running \ {h}
        /\ exc' = IF exc = "" THEN "BuildFailure" ELSE exc
    /\ UNCHANGED <<clientVars, calls, messenger, cmd, pc, phase, result, inflight,
                   now, store, bargs, todo, done, settled, pending, pargs,
                   hist>>

\* The collector advances the settled height and calls the callback,
\* which decides what to report.
Collect ==
    /\ pc = "build_run"
    /\ exc = ""
    /\ pending = <<>>
    /\ settled < TotalHeight(max_size)
    /\ CollectorReady(settled, done)
    /\ settled' = settled + 1
    /\ pending' = OnGenerateShard(settled + 1, max_size, bargs.interval)
    /\ UNCHANGED <<clientVars, calls, messenger, cmd, pc, phase, result, inflight,
                   now, store, bargs, todo, running, done, exc, pargs, hist>>

\* The callback calls client.messenger.height(cur_height) (api.py:44).
ReportCall ==
    /\ pc = "build_run"
    /\ exc = ""
    /\ pending # <<>>
    /\ inflight' = Issue("height", Head(pending))
    /\ pending' = Tail(pending)
    /\ hist' = [hist EXCEPT !.reported = Append(hist.reported, Head(pending))]
    /\ pc' = HeightCallPc
    /\ UNCHANGED <<clientVars, calls, messenger, cmd, phase, result, now, store,
                   bargs, todo, running, done, settled, exc, pargs>>

\* The callback with a handler around messenger.height that logs the
\* error and returns.
HeightReturn_Swallow ==
    /\ pc = "cb_wait"
    /\ \E r \in inflight, o \in Outcomes("height") :
        /\ r.op = "height"
        /\ Ends(r, o)
        /\ inflight' = inflight \ {r}
        /\ hist' = IF o = "HeightRejected"
                   THEN [hist EXCEPT !.rejected = r.arg]
                   ELSE Exhaust(hist, r, o)
    /\ pc' = "build_run"
    /\ UNCHANGED <<clientVars, calls, messenger, cmd, phase, result, now,
                   store, bargs, todo, running, done, settled, pending, exc,
                   pargs>>

\* messenger.height is over: the callback returns, or its error unwinds
\* the collector.
HeightReturn ==
    /\ pc = "cb_wait"
    /\ \E r \in inflight, o \in Outcomes("height") :
        /\ r.op = "height"
        /\ Ends(r, o)
        /\ inflight' = inflight \ {r}
        /\ IF o = "ok"
           THEN UNCHANGED <<pending, exc, hist>>
           ELSE /\ exc' = Surfaced(o)
                /\ pending' = <<>>
                /\ hist' = IF o = "HeightRejected"
                           THEN [hist EXCEPT !.rejected = r.arg]
                           ELSE Exhaust(hist, r, o)
    /\ pc' = "build_run"
    /\ UNCHANGED <<clientVars, calls, messenger, cmd, phase, result, now, store,
                   bargs, todo, running, done, settled, pargs>>

\* farm() with a handler around build() that goes on to poll().
BuildAbort_GoesOn ==
    /\ pc = "build_run"
    /\ exc # ""
    /\ running = {}
    /\ IF cmd = "farm"
       THEN /\ pc' = "farm_poll"
            /\ phase' = "Polling"
            /\ UNCHANGED result
       ELSE Propagate(exc)
    /\ UNCHANGED <<clientVars, calls, messenger, cmd, inflight, now,
                   buildVars, pargs, hist>>

\* The build is aborted: the in-flight workers are drained, then the error
\* leaves Builder.build, build() (no handler, api.py:210) and farm().
BuildAbort ==
    /\ pc = "build_run"
    /\ exc # ""
    /\ running = {}
    /\ Propagate(exc)
    /\ UNCHANGED <<clientVars, calls, messenger, cmd, inflight, now, buildVars,
                   pargs, hist>>

\* Every height is settled: build() returns the generated count; farm()
\* goes on to poll().
BuildReturn ==
    /\ pc = "build_run"
    /\ exc = ""
    /\ pending = <<>>
    /\ settled = TotalHeight(max_size)
    /\ hist' = [hist EXCEPT !.buildReturned = TRUE]
    /\ IF cmd = "farm"
       THEN /\ pc' = "farm_poll"
            /\ phase' = "Polling"
            /\ UNCHANGED result
       ELSE /\ pc' = "idle"
            /\ result' = Returned("generated", Cardinality(hist.generated))
            /\ UNCHANGED phase
    /\ UNCHANGED <<clientVars, calls, messenger, cmd, inflight, now, buildVars,
                   pargs>>
\* -------------------------------------------------------------------- poll
\* "if limit is not None" instead of "if limit": 0 sets a deadline.
StopTime_NotNone(limit, t) == IF limit # NoLimit THEN t + limit ELSE NoStop

\* The deadline set to the start time: the limit is not added.
StopTime_NoLimit(limit, t) == IF limit # NoLimit /\ limit # 0 THEN t ELSE NoStop

\* api.py:166: "if limit" holds for a limit that is neither None nor 0.
StopTime(limit, t) == IF limit # NoLimit /\ limit # 0 THEN t + limit ELSE NoStop

\* The deadline check with "==" for ">=".
DeadlineReached_Equal(stop_time, t) == stop_time # NoStop /\ t = stop_time

\* The deadline check without the comparison of the clock.
DeadlineReached_NoClock(stop_time, t) == stop_time # NoStop

\* api.py:175: the deadline check.
DeadlineReached(stop_time, t) == stop_time # NoStop /\ t >= stop_time

\* poll(register_address, delay, limit) called on an idle client.
Poll ==
    /\ Call("poll")
    /\ \E ra \in BOOLEAN, d \in 0..MaxDelay, l \in {NoLimit} \cup 0..MaxLimit :
        /\ pargs' = [delay |-> d, limit |-> l, stop_time |-> StopTime(l, now'),
                     T |-> now']
        /\ IF ra
           THEN RegisterBody(messenger)
           ELSE /\ pc' = "poll_ping"
                /\ UNCHANGED <<messenger, inflight>>
    /\ hist' = NoHist
    /\ phase' = "Idle"
    /\ NoBuilder
    /\ UNCHANGED clientVars

\* farm() calls poll() with the defaults (api.py:231).
FarmPoll ==
    /\ pc = "farm_poll"
    /\ pargs' = [delay |-> DEFAULT_DELAY, limit |-> NoLimit,
                 stop_time |-> StopTime(NoLimit, now), T |-> now]
    /\ pc' = "poll_ping"
    /\ UNCHANGED <<clientVars, calls, messenger, cmd, phase, result, inflight, now,
                   buildVars, hist>>

\* Top of the loop: self.ping().
PollPing ==
    /\ pc = "poll_ping"
    /\ hist.pingCalls < MaxPings
    /\ PingBody
    /\ hist' = [hist EXCEPT !.pingCalls = hist.pingCalls + 1]
    /\ UNCHANGED <<clientVars, calls, cmd, phase, result, now, buildVars, pargs>>

\* After the ping: return True at the deadline, sleep otherwise.
PollCheck ==
    /\ pc = "poll_check"
    /\ IF DeadlineReached(pargs.stop_time, now)
       THEN /\ pc' = "idle"
            /\ result' = IF cmd = "farm" THEN Returned("None", 0)
                         ELSE Returned("True", 0)
            /\ phase' = IF cmd = "farm" THEN "Terminal" ELSE phase
            /\ UNCHANGED hist
       ELSE /\ pc' = "poll_sleep"
            /\ hist' = [hist EXCEPT !.sleeps = hist.sleeps + 1]
            /\ UNCHANGED <<result, phase>>
    /\ UNCHANGED <<clientVars, calls, messenger, cmd, inflight, now, buildVars,
                   pargs>>

\* time.sleep(delay) is over.
PollWake ==
    /\ pc = "poll_sleep"
    /\ now + pargs.delay <= MaxTime
    /\ now' = now + pargs.delay
    /\ pc' = "poll_ping"
    /\ UNCHANGED <<clientVars, calls, messenger, cmd, phase, result, inflight,
                   buildVars, pargs, hist>>

\* -------------------------------------------------------------------- farm
\* farm() calling build() before register().
Farm_BuildFirst ==
    /\ Call("farm")
    /\ messenger' = [InitMessenger(messenger, retry_limit, retry_delay,
                                   cfg.wallet)
                       EXCEPT !.retry_limit = FarmRetryLimit]
    /\ pc' = "farm_build"
    /\ phase' = "Registering"
    /\ hist' = NoHist
    /\ NoBuilder
    /\ pargs' = NoPoll
    /\ UNCHANGED <<clientVars, inflight>>

\* farm() called on an idle client, up to the blocking call inside
\* register().
Farm ==
    /\ Call("farm")
    /\ RegisterBody([InitMessenger(messenger, retry_limit, retry_delay,
                                   cfg.wallet)
                       EXCEPT !.retry_limit = FarmRetryLimit])
    /\ phase' = "Registering"
    /\ hist' = NoHist
    /\ NoBuilder
    /\ pargs' = NoPoll
    /\ UNCHANGED clientVars

Next ==
    \/ Register
    \/ RegisterReturn
    \/ Ping
    \/ PingReturn
    \/ Retry
    \/ Tick
    \/ Build
    \/ FarmBuild
    \/ Dispatch
    \/ WorkerDone
    \/ WorkerFail
    \/ Collect
    \/ ReportCall
    \/ HeightReturn
    \/ BuildAbort
    \/ BuildReturn
    \/ Poll
    \/ FarmPoll
    \/ PollPing
    \/ PollCheck
    \/ PollWake
    \/ Farm
    \/ Config

Spec == Init /\ [][Next]_vars
\* ------------------------------------------------- poll, for termination
\* The loop of poll as above, without the bookkeeping of hist (whose
\* counters grow with every iteration) and the cap on the pings, and with
\* pings that succeed.
LivePollPing ==
    /\ pc = "poll_ping"
    /\ PingBody
    /\ UNCHANGED <<clientVars, calls, cmd, phase, result, now, buildVars,
                   pargs, hist>>

LivePingOk ==
    /\ pc = "ping_call"
    /\ \E r \in inflight :
        /\ r.op = "ping"
        /\ inflight' = inflight \ {r}
    /\ pc' = "poll_check"
    /\ UNCHANGED <<clientVars, calls, messenger, cmd, phase, result, now,
                   buildVars, pargs, hist>>

LivePollCheck ==
    /\ pc = "poll_check"
    /\ IF DeadlineReached(pargs.stop_time, now)
       THEN /\ pc' = "idle"
            /\ result' = Returned("True", 0)
       ELSE /\ pc' = "poll_sleep"
            /\ UNCHANGED result
    /\ UNCHANGED <<clientVars, calls, messenger, cmd, phase, inflight, now,
                   buildVars, pargs, hist>>

NextLive ==
    \/ Poll
    \/ RegisterReturn
    \/ LivePollPing
    \/ Retry
    \/ Tick
    \/ LivePingOk
    \/ LivePollCheck
    \/ PollWake

\* The calling thread keeps running, every ping comes back, and the clock
\* keeps advancing.
LiveSpec ==
    /\ Init
    /\ [][NextLive]_vars
    /\ WF_vars(LivePollPing)
    /\ WF_vars(LivePingOk)
    /\ WF_vars(LivePollCheck)
    /\ WF_vars(PollWake)
    /\ SF_vars(Tick)

\* ================================================================== claims
Range(q) == {q[i] : i \in 1..Len(q)}

\* spec 3 and 8: the heights the checkpoint policy selects.
Policy(total_height, interval) ==
    {h \in 1..total_height :
        h = 1 \/ h % interval = 0 \/ h = total_height}

PhaseRank(p) ==
    CASE p = "Idle" -> 0
      [] p = "Registering" -> 1
      [] p = "Building" -> 2
      [] p = "Polling" -> 3
      [] p = "Terminal" -> 4

SameCall == cmd' = cmd /\ calls' = calls

RegPassed(h) == h.regOutcome \in {"ok", "AddressAlreadyRegistered"}

\* C1: over one complete build the set of heights passed to
\* messenger.height is exactly the heights h of 1..total_height with h = 1,
\* h mod set_height_interval = 0 or h = total_height.
C1_CheckpointPolicyExact ==
    hist.buildReturned =>
        Range(hist.reported) = Policy(TotalHeight(max_size), bargs.interval)

\* C2: the sequence of heights passed to messenger.height during a build
\* is strictly increasing, whatever the order in which the workers finish.
C2_StrictlyIncreasing ==
    \A i, j \in 1..Len(hist.reported) :
        i < j => hist.reported[i] < hist.reported[j]

C2_Witness ==
    /\ Len(hist.reported) >= 2
    /\ bargs.cores >= 2
    /\ running # {}

\* C3: a height is reported only when every height up to it has completed
\* generation: it is at most the settled height.
C3_PrefixComplete ==
    \A i \in 1..Len(hist.reported) :
        /\ hist.reported[i] <= settled
        /\ 1..hist.reported[i] \subseteq done

C3_Witness ==
    /\ hist.reported # <<>>
    /\ \E h \in done : h > settled + 1 /\ (settled + 1) \notin done

\* C4: at most one remote operation is in flight on the messenger at any
\* time, also while several workers complete eligible heights.
C4_SingleSequencer == Cardinality(inflight) <= 1

C4_Witness ==
    /\ \E r \in inflight : r.op = "height"
    /\ bargs.cores >= 2
    /\ \E h \in done :
        h > settled /\ OnGenerateShard(h, max_size, bargs.interval) # <<>>

\* C5: farm() moves Registering -> Building -> Polling and never back; no
\* shard is generated, no checkpoint reported and the builder not called
\* before register is through, and no ping is sent before build returned.
C5_FarmPhaseOrder ==
    [][cmd' = "farm" =>
        /\ (cmd = "farm" /\ SameCall) =>
               \/ phase' = phase
               \/ phase = "Registering" /\ phase' = "Building"
               \/ phase = "Building" /\ phase' = "Polling"
               \/ phase' = "Terminal"
        /\ (cmd = "farm" /\ SameCall) => PhaseRank(phase') >= PhaseRank(phase)
        /\ ~RegPassed(hist') =>
               /\ hist'.generated = {}
               /\ hist'.reported = <<>>
               /\ hist'.builds = 0
               /\ phase' \in {"Registering", "Terminal"}
        /\ ~hist'.buildReturned =>
               /\ hist'.pingCalls = 0
               /\ phase' # "Polling"]_vars

C5_Witness ==
    /\ cmd = "farm"
    /\ phase = "Polling"
    /\ hist.pings >= 1
    /\ hist.reported # <<>>
    /\ hist.generated # {}

\* C6: in farm() an AddressAlreadyRegistered outcome of register leads to
\* Building just as success does; any other error ends the run with that
\* error, with no builder call, shard, checkpoint or ping.
C6_FarmRegistration ==
    [][(cmd = "farm" /\ pc = "reg_call" /\ pc' # "reg_call") =>
        IF RegPassed(hist')
        THEN /\ pc' = "farm_build"
             /\ phase' = "Building"
             /\ result' = NoResult
             /\ hist' = [hist EXCEPT !.regOutcome = hist'.regOutcome]
             /\ UNCHANGED <<messenger, buildVars, cmd>>
        ELSE /\ pc' = "idle"
             /\ phase' = "Terminal"
             /\ result' = Raised(hist'.regOutcome)
             /\ hist'.regOutcome \notin {"", "ok", "AddressAlreadyRegistered"}
             /\ hist'.builds = 0
             /\ hist'.generated = {}
             /\ hist'.reported = <<>>
             /\ hist'.pingCalls = 0]_vars

C6_Witness ==
    /\ cmd = "farm"
    /\ hist.regOutcome = "AddressAlreadyRegistered"
    /\ phase = "Building"
    /\ hist.generated # {}

\* C7: once the builder fails in farm(), farm never polls or pings, does
\* not call the builder again, and ends with BuildFailure.
C7_FarmBuildFailure ==
    [][/\ (cmd = "farm" /\ SameCall /\ phase = "Building"
             /\ exc = "BuildFailure") =>
               /\ phase' \in {"Building", "Terminal"}
               /\ hist'.pingCalls = 0
               /\ hist'.builds = 1
               /\ ~hist'.buildReturned
               /\ pc' = "idle" => result' = Raised(exc)
       /\ (cmd' = "farm" /\ result' = Raised("BuildFailure")) =>
               /\ pc' = "idle"
               /\ phase' = "Terminal"
               /\ hist'.pingCalls = 0
               /\ hist'.builds = 1]_vars

C7_Witness ==
    /\ cmd = "farm"
    /\ result = Raised("BuildFailure")
    /\ hist.generated # {}

\* C8: once the server rejected the report of a height, the operation is
\* over (no retry), no height is reported any more in that build, build
\* returns no count and farm never polls.
C8_RejectionFatal ==
    [][/\ (hist'.rejected # 0 /\ hist.rejected = 0) => inflight' = {}
       /\ (hist.rejected # 0 /\ SameCall) =>
               /\ hist'.reported = hist.reported
               /\ hist'.rejected = hist.rejected
               /\ ~hist'.buildReturned
               /\ hist'.pingCalls = 0
               /\ phase' # "Polling"
               /\ result'.kind # "return"
               /\ pc' \in {"build_run", "idle"}]_vars

C8_Witness ==
    /\ result = Raised("HeightRejected")
    /\ bargs.cores >= 2
    /\ hist.rejected < TotalHeight(max_size)
    /\ \E h \in done : h > hist.rejected

PollReturns == cmd = "poll" /\ pc # "idle" /\ pc' = "idle"
                 /\ result'.kind = "return"

\* C9: poll with limit > 0 returns True only at T + limit or later, right
\* after a completed ping (one ping more than sleeps), and it does not go
\* to sleep once the deadline is reached.
C9_PollDeadline ==
    [][/\ (PollReturns /\ pargs.limit > 0) =>
               /\ result' = Returned("True", 0)
               /\ now >= pargs.T + pargs.limit
               /\ pc = "poll_check"
               /\ hist.pings >= 1
               /\ hist.pings = hist.sleeps + 1
       /\ (cmd = "poll" /\ pargs.limit > 0 /\ pc # "poll_sleep"
             /\ pc' = "poll_sleep") =>
               now < pargs.T + pargs.limit]_vars

C9_Witness ==
    /\ cmd = "poll"
    /\ pc = "idle"
    /\ result = Returned("True", 0)
    /\ pargs.limit > 0
    /\ hist.sleeps >= 1

\* C10 as stated: whenever delay < limit, poll has completed at least two
\* pings when it returns True, whatever time a ping takes.
C10_TwoPingsAlways ==
    [][(PollReturns /\ pargs.limit > 0 /\ pargs.delay < pargs.limit) =>
            hist.pings >= 2]_vars

\* C10 amended: whenever delay < limit and the first ping completes before
\* T + limit, poll has completed at least two pings when it returns True;
\* a first ping that completes at T + limit or later makes poll return
\* True after that single ping.
C10_TwoPingsUnlessFirstLate ==
    [][(PollReturns /\ pargs.limit > 0 /\ pargs.delay < pargs.limit) =>
            IF hist.firstPing < pargs.T + pargs.limit
            THEN hist.pings >= 2
            ELSE hist.pings = 1]_vars

C10_Witness ==
    /\ cmd = "poll"
    /\ pc = "idle"
    /\ result = Returned("True", 0)
    /\ pargs.limit = 2
    /\ pargs.delay = 1
    /\ hist.pings >= 2
    /\ hist.firstPing > 0
\* C11: poll without a deadline (limit None or 0) never returns: after
\* each successful ping it sleeps, after each sleep it pings again; so
\* farm() never returns normally once it is Polling.
C11_UnattendedPollRuns ==
    [][/\ (cmd = "poll" /\ pargs.limit \in {NoLimit, 0} /\ pc # "idle"
             /\ SameCall) =>
               /\ result'.kind # "return"
               /\ pc = "poll_check" => pc' = "poll_sleep"
               /\ pc = "poll_sleep" => pc' = "poll_ping"
               /\ pc = "poll_ping" => pc' = "ping_call"
       /\ (cmd = "farm" /\ phase = "Polling" /\ SameCall) =>
               /\ result'.kind # "return"
               /\ pargs'.stop_time = NoStop
               /\ pc = "poll_check" => pc' = "poll_sleep"
               /\ pc = "poll_sleep" => pc' = "poll_ping"]_vars

C11_Witness ==
    /\ cmd = "poll"
    /\ pargs.limit = 0
    /\ hist.pings >= 2
    /\ hist.sleeps >= 2

\* C12: while farm() runs, the messenger exists and its retry limit is
\* the near-unbounded one: before register is issued, during every
\* checkpoint report and during every ping.
C12_FarmRetryLimit ==
    (cmd = "farm" /\ (pc # "idle" \/ inflight # {})) =>
        /\ messenger.exists
        /\ messenger.retry_limit = FarmRetryLimit

C12_Witness ==
    /\ cmd = "farm"
    /\ calls = 2
    /\ phase = "Polling"
    /\ \E r \in inflight : r.op = "ping" /\ r.attempts > MaxRetryLimit
    /\ hist.reported # <<>>

\* C15: when build completes, the last height reported to the server is
\* total_height = ceil(max_size / shard_size).
C15_FinalCheckpointIsTotal ==
    hist.buildReturned =>
        /\ hist.reported # <<>>
        /\ hist.reported[Len(hist.reported)] = TotalHeight(max_size)

\* C16: every one-shot register, ping, build or poll runs with the retry
\* limit the Client was constructed with.
C16_OneShotKeepsPolicy ==
    (cmd \in {"register", "ping", "build", "poll"} /\ pc # "idle") =>
        (messenger.exists => messenger.retry_limit = retry_limit)
\* C13: a one-shot register() that the server answers with "already
\* registered" does not return True: that answer ends the operation and
\* leaves register() as AddressAlreadyRegistered; inside farm() the same
\* answer is absorbed and the run goes on.
C13_DirectRegisterDistinct ==
    [][(pc = "reg_call"
          /\ hist'.regOutcome = "AddressAlreadyRegistered") =>
            /\ inflight' = {}
            /\ hist'.attempts = 0
            /\ cmd = "register" =>
                   /\ pc' = "idle"
                   /\ result' = Raised("AddressAlreadyRegistered")
            /\ cmd = "farm" =>
                   /\ pc' = "farm_build"
                   /\ result' = NoResult]_vars

C13_Witness ==
    /\ cmd = "register"
    /\ pc = "idle"
    /\ result = Raised("AddressAlreadyRegistered")

C17_PollStopsOnPingFailure ==
    [][/\ (cmd \in {"poll", "farm"} /\ pc = "ping_call"
             /\ hist'.attempts # 0 /\ hist.attempts = 0) =>
               /\ pc' = "idle"
               /\ result' = Raised("ConnectionExhausted")
               /\ inflight' = {}
               /\ UNCHANGED <<messenger, cfg, store>>
       /\ (cmd = "poll" /\ hist.attempts # 0 /\ SameCall) =>
               /\ hist'.pingCalls = hist.pingCalls
               /\ hist'.pings = hist.pings
               /\ hist'.sleeps = hist.sleeps
               /\ result'.kind # "return"
               /\ pc' = "idle"]_vars

C17_Witness ==
    /\ cmd = "poll"
    /\ pc = "idle"
    /\ result = Raised("ConnectionExhausted")
    /\ hist.pings >= 1
    /\ hist.sleeps >= 1
    /\ calls < MaxCalls
\* C19: config with a malformed payout address or wallet raises and
\* changes nothing (configuration in memory, saved configuration,
\* messenger), also when the other argument is well-formed; config
\* without arguments does not save or change the configuration.
C19_ConfigAllOrNothing ==
    [][(cmd' = "config" /\ calls' = calls + 1) =>
        LET sw == hist'.set_wallet
            sp == hist'.set_payout_address
            badAddress == sp # "None" /\ sp \notin Addresses
            badWallet == sw # "None" /\ sw \notin Wallets
        IN  /\ (badAddress \/ badWallet) =>
                   /\ result' = Raised(IF badAddress THEN "InvalidAddress"
                                       ELSE "InvalidHWIF")
                   /\ UNCHANGED <<cfg, saved, messenger>>
                   /\ hist'.saves = 0
            /\ (sw = "None" /\ sp = "None") =>
                   /\ UNCHANGED <<cfg, saved>>
                   /\ hist'.saves = 0
                   /\ result' = Returned("cfg", 0)
            /\ ~(badAddress \/ badWallet) =>
                   /\ result' = Returned("cfg", 0)
                   /\ saved' = IF hist'.saves = 1 THEN cfg' ELSE saved]_vars

C19_Witness ==
    /\ cmd = "config"
    /\ result = Raised("InvalidHWIF")
    /\ hist.set_payout_address = "a2"
    /\ cfg.payout_address = "a1"
    /\ saved = cfg
    /\ ~messenger.exists

\* C20: whenever the messenger exists, its signing key is the key of the
\* configured wallet cfg["wallet"].
C20_KeyFollowsWallet ==
    messenger.exists => messenger.wif = GetKey(cfg.wallet)
\* C18: poll with limit > 0 that has entered its loop eventually returns
\* True, for every delay, when every ping returns and the clock advances.
C18_BoundedPollTerminates ==
    (cmd = "poll" /\ pargs.limit > 0 /\ pc = "poll_ping")
        ~> (pc = "idle" /\ result = Returned("True", 0))

C18_Witness ==
    /\ cmd = "poll"
    /\ pc = "idle"
    /\ result = Returned("True", 0)
    /\ pargs.limit = MaxLimit
    /\ pargs.delay = 0
    /\ now >= pargs.limit
====
